---- MODULE Spec2Model ----
(***************************************************************************)
(* A model of phase2_replacements.py: a one-shot script that reads         *)
(* src/lib/supabasePipeline.ts, applies two re.sub rewrites to the text in *)
(* memory, writes the text back to the same path and prints a              *)
(* confirmation.                                                           *)
(*                                                                         *)
(* Text is a sequence of characters (one-character strings); the file on   *)
(* disk is a sequence of bytes.  An ASCII byte is written as its           *)
(* character; the two bytes of U+00E9 are "xC3" and "xA9".                 *)
(***************************************************************************)
EXTENDS Integers, Sequences, FiniteSets, TLC

VARIABLES
    exists,     \* the target path names a file
    disk,       \* the bytes of the target file (<<>> when it does not exist)
    pc,         \* the statement the script executes next
    content,    \* the script's variable `content`
    stdout,     \* what print has emitted in this run
    err,        \* the exception that ended this run, or NoError
    before,     \* history: [exists, disk] when this run started
    readText,   \* history: the text f.read() returned in this run
    sub1Out,    \* history: the value of content after the first re.sub
    log,        \* history: the steps this run has completed, in order
    prevDone    \* history: the file is as an earlier run of the script wrote it, in full

vars == << exists, disk, pc, content, stdout, err, before, readText, sub1Out, log, prevDone >>

-----------------------------------------------------------------------------
(* Bounds of the model. *)

\* A document is the concatenation of at most MaxFrags fragments.
MaxFrags == 3

\* A failing write leaves at most MaxPartial bytes of the new content behind.
MaxPartial == 1

-----------------------------------------------------------------------------
(* The string literals of the script. *)

\* line 14, the raw string handed to re.sub as its pattern
pattern1 ==
    << "i", "f", " ", "\\", "(", "!", "t", "h", "i", "s", "\\", ".", "i", "s", "I", "n", "i",
       "t", "i", "a", "l", "i", "z", "e", "d", " ", "\\", "|", "\\", "|", " ", "!", "t", "h",
       "i", "s", "\\", ".", "s", "u", "p", "a", "b", "a", "s", "e", "U", "r", "l", " ", "\\",
       "|", "\\", "|", " ", "!", "t", "h", "i", "s", "\\", ".", "s", "u", "p", "a", "b", "a",
       "s", "e", "A", "n", "o", "n", "K", "e", "y", "\\", ")" >>

\* line 15
repl1 ==
    << "i", "f", " ", "(", "!", "t", "h", "i", "s", ".", "i", "s", "I", "n", "i", "t", "i",
       "a", "l", "i", "z", "e", "d", ")" >>

\* pattern2 with the backslash before the parenthesis after Error left out
pattern2Unbalanced ==
    << "i", "f", " ", "\\", "(", "!", "t", "h", "i", "s", "\\", ".", "s", "u", "p", "a", "b",
       "a", "s", "e", "U", "r", "l", "\\", ")", " ", "t", "h", "r", "o", "w", " ", "n", "e",
       "w", " ", "E", "r", "r", "o", "r", "(", "\\", "'", "S", "u", "p", "a", "b", "a", "s",
       "e", " ", "U", "R", "L", " ", "n", "o", "t", " ", "s", "e", "t", "\\", "'", "\\", ")",
       ";" >>

\* line 21 (inside the raw string, \' stays a backslash and a quote)
pattern2 ==
    << "i", "f", " ", "\\", "(", "!", "t", "h", "i", "s", "\\", ".", "s", "u", "p", "a", "b",
       "a", "s", "e", "U", "r", "l", "\\", ")", " ", "t", "h", "r", "o", "w", " ", "n", "e",
       "w", " ", "E", "r", "r", "o", "r", "\\", "(", "\\", "'", "S", "u", "p", "a", "b", "a",
       "s", "e", " ", "U", "R", "L", " ", "n", "o", "t", " ", "s", "e", "t", "\\", "'", "\\",
       ")", ";" >>

\* repl2 with the guard of its last line still reading this.supabaseUrl
repl2KeepsThis ==
    << "/", "/", " ", "P", "H", "A", "S", "E", " ", "2", ":", " ", "G", "e", "t", " ", "e",
       "n", "v", " ", "v", "a", "r", "s", " ", "d", "i", "r", "e", "c", "t", "l", "y", " ",
       "i", "n", "s", "t", "e", "a", "d", " ", "o", "f", " ", "c", "a", "c", "h", "i", "n",
       "g", "\n", " ", " ", " ", " ", "c", "o", "n", "s", "t", " ", "s", "u", "p", "a", "b",
       "a", "s", "e", "U", "r", "l", " ", "=", " ", "i", "m", "p", "o", "r", "t", ".", "m",
       "e", "t", "a", ".", "e", "n", "v", ".", "V", "I", "T", "E", "_", "S", "U", "P", "A",
       "B", "A", "S", "E", "_", "U", "R", "L", " ", "|", "|", " ", "'", "'", ";", "\n", " ",
       " ", " ", " ", "c", "o", "n", "s", "t", " ", "s", "u", "p", "a", "b", "a", "s", "e",
       "A", "n", "o", "n", "K", "e", "y", " ", "=", " ", "i", "m", "p", "o", "r", "t", ".",
       "m", "e", "t", "a", ".", "e", "n", "v", ".", "V", "I", "T", "E", "_", "S", "U", "P",
       "A", "B", "A", "S", "E", "_", "A", "N", "O", "N", "_", "K", "E", "Y", " ", "|", "|",
       " ", "'", "'", ";", "\n", " ", " ", " ", " ", "i", "f", " ", "(", "!", "t", "h", "i",
       "s", ".", "s", "u", "p", "a", "b", "a", "s", "e", "U", "r", "l", ")", " ", "t", "h",
       "r", "o", "w", " ", "n", "e", "w", " ", "E", "r", "r", "o", "r", "(", "'", "S", "u",
       "p", "a", "b", "a", "s", "e", " ", "U", "R", "L", " ", "n", "o", "t", " ", "s", "e",
       "t", "'", ")", ";" >>

\* line 22 (a plain string: \n is a line feed, \' a quote)
repl2 ==
    << "/", "/", " ", "P", "H", "A", "S", "E", " ", "2", ":", " ", "G", "e", "t", " ", "e",
       "n", "v", " ", "v", "a", "r", "s", " ", "d", "i", "r", "e", "c", "t", "l", "y", " ",
       "i", "n", "s", "t", "e", "a", "d", " ", "o", "f", " ", "c", "a", "c", "h", "i", "n",
       "g", "\n", " ", " ", " ", " ", "c", "o", "n", "s", "t", " ", "s", "u", "p", "a", "b",
       "a", "s", "e", "U", "r", "l", " ", "=", " ", "i", "m", "p", "o", "r", "t", ".", "m",
       "e", "t", "a", ".", "e", "n", "v", ".", "V", "I", "T", "E", "_", "S", "U", "P", "A",
       "B", "A", "S", "E", "_", "U", "R", "L", " ", "|", "|", " ", "'", "'", ";", "\n", " ",
       " ", " ", " ", "c", "o", "n", "s", "t", " ", "s", "u", "p", "a", "b", "a", "s", "e",
       "A", "n", "o", "n", "K", "e", "y", " ", "=", " ", "i", "m", "p", "o", "r", "t", ".",
       "m", "e", "t", "a", ".", "e", "n", "v", ".", "V", "I", "T", "E", "_", "S", "U", "P",
       "A", "B", "A", "S", "E", "_", "A", "N", "O", "N", "_", "K", "E", "Y", " ", "|", "|",
       " ", "'", "'", ";", "\n", " ", " ", " ", " ", "i", "f", " ", "(", "!", "s", "u", "p",
       "a", "b", "a", "s", "e", "U", "r", "l", ")", " ", "t", "h", "r", "o", "w", " ", "n",
       "e", "w", " ", "E", "r", "r", "o", "r", "(", "'", "S", "u", "p", "a", "b", "a", "s",
       "e", " ", "U", "R", "L", " ", "n", "o", "t", " ", "s", "e", "t", "'", ")", ";" >>

\* line 34, the text print() emits (the leading U+2705 is left out)
confirmation == "Fixed supabaseUrl/supabaseAnonKey references!"

\* the newline argument left to the default of a platform that writes CR LF
newlineCRLF == << "\r", "\n" >>

\* line 31: open(..., 'w', encoding='utf-8', newline='\n')
newlineArg == << "\n" >>

NoError == "none"

-----------------------------------------------------------------------------
(* re.sub *)

\* The concatenation of a sequence of sequences (pieces of one element each
\* are put together in one step, the rest by halves).
RECURSIVE Concat(_)
Concat(ss) ==
    IF \A i \in 1..Len(ss) : Len(ss[i]) = 1 THEN [i \in 1..Len(ss) |-> ss[i][1]]
    ELSE IF Len(ss) = 1 THEN ss[1]
    ELSE LET half == Len(ss) \div 2
         IN  Concat(SubSeq(ss, 1, half)) \o Concat(SubSeq(ss, half + 1, Len(ss)))

\* The characters that are operators of a regular expression unless escaped.
MetaChars == { ".", "^", "$", "*", "+", "?", "{", "}", "[", "]", "|", "(", ")" }

\* The number of backslashes that stand directly before position i.
BackslashesBefore(p, i) ==
    LET stops == { j \in 1..(i - 1) : p[j] # "\\" }
        last == IF stops = {} THEN 0 ELSE CHOOSE j \in stops : \A k \in stops : k <= j
    IN  i - 1 - last

\* Position i holds a backslash that escapes the character after it.
Escapes(p, i) == p[i] = "\\" /\ i < Len(p) /\ BackslashesBefore(p, i) % 2 = 0

\* Position i holds a character that a backslash escapes.
Escaped(p, i) == i > 1 /\ Escapes(p, i - 1)

\* Position i holds a character that is neither an escaping backslash nor escaped.
Bare(p, i) == ~Escapes(p, i) /\ ~Escaped(p, i)

\* The groups open after position i: unescaped "(" less unescaped ")".
OpenGroups(p, i) ==
    Cardinality({ j \in 1..i : Bare(p, j) /\ p[j] = "(" })
    - Cardinality({ j \in 1..i : Bare(p, j) /\ p[j] = ")" })

\* re.compile raises re.error on a group that is not closed or not opened and
\* on a backslash at the end of the pattern.
Compiles(p) ==
    /\ { i \in 1..Len(p) : OpenGroups(p, i) < 0 } = {}
    /\ OpenGroups(p, Len(p)) = 0
    /\ ~(Len(p) > 0 /\ p[Len(p)] = "\\" /\ Bare(p, Len(p)))

\* A backslash followed by a punctuation character matches that character.
Unescape(p) ==
    Concat([i \in 1..Len(p) |-> IF Escapes(p, i) THEN << >> ELSE << p[i] >>])

\* No operator of the pattern language is left unescaped, and nothing but
\* punctuation is escaped: the pattern matches exactly the text Unescape gives.
IsEscapedLiteral(p) ==
    \A i \in 1..Len(p) :
        /\ Escaped(p, i) => p[i] \in MetaChars \cup { "'" }
        /\ ~Escaped(p, i) /\ ~Escapes(p, i) => p[i] \notin MetaChars \cup { "\\" }

\* The replacement template: \n stands for a line feed, any other escaped
\* character here for itself; an unescaped character stands for itself.
ExpandTemplate(r) ==
    Concat([i \in 1..Len(r) |->
              IF Escapes(r, i) THEN << >>
              ELSE IF Escaped(r, i) /\ r[i] = "n" THEN << "\n" >>
              ELSE << r[i] >>])

\* The literal lit occurs in string at position i.
MatchAt(lit, string, i) ==
    /\ i >= 1
    /\ i + Len(lit) - 1 <= Len(string)
    /\ \A k \in 1..Len(lit) : string[i + k - 1] = lit[k]

\* Every position where lit occurs in string.
Occurrences(lit, string) ==
    { i \in 1..(Len(string) - Len(lit) + 1) : MatchAt(lit, string, i) }

\* Of the occurrences occ of a text of the given width, those a scan from pos
\* on takes: the first one at or after pos, then the first one at or after its
\* end, and so on.
RECURSIVE Leftmost(_, _, _)
Leftmost(occ, width, pos) ==
    LET ahead == { i \in occ : i >= pos }
    IN  IF ahead = {} THEN << >>
        ELSE LET first == CHOOSE i \in ahead : \A j \in ahead : i <= j
             IN  << first >> \o Leftmost(ahead, width, first + width)

\* The search stopped after the first match (count=1).
ScanFirstOnly(lit, string, pos) ==
    LET found == Leftmost(Occurrences(lit, string), Len(lit), pos)
    IN  IF found = << >> THEN << >> ELSE << Head(found) >>

\* The starts of the matches re.sub finds in string, scanning from pos: the
\* matches do not overlap.
Scan(lit, string, pos) == Leftmost(Occurrences(lit, string), Len(lit), pos)

\* The text after the last match left out.
RECURSIVE SpliceNoTail(_, _, _, _, _)
SpliceNoTail(string, starts, width, new, pos) ==
    IF starts = << >> THEN << >>
    ELSE SubSeq(string, pos, Head(starts) - 1) \o new
         \o SpliceNoTail(string, Tail(starts), width, new, Head(starts) + width)

\* The text between the matches is copied, each match gives way to new.
RECURSIVE Splice(_, _, _, _, _)
Splice(string, starts, width, new, pos) ==
    IF starts = << >> THEN SubSeq(string, pos, Len(string))
    ELSE SubSeq(string, pos, Head(starts) - 1) \o new
         \o Splice(string, Tail(starts), width, new, Head(starts) + width)

\* re.compile: the compiled pattern, or the re.error it raises.
re_compile(pattern) ==
    [ok |-> Compiles(pattern), lit |-> Unescape(pattern)]

\* The copy resumes on the last character of a match instead of after it.
subResumesEarly(compiled, template, string) ==
    Splice(string, Scan(compiled.lit, string, 1), Len(compiled.lit) - 1, template, 1)

\* Pattern.sub(repl, string) of a compiled pattern
sub(compiled, template, string) ==
    Splice(string, Scan(compiled.lit, string, 1), Len(compiled.lit), template, 1)

\* The two re.sub calls compile these (re keeps compiled patterns in a cache)
\* and expand these replacement templates.
compiled1 == re_compile(pattern1)
template1 == ExpandTemplate(repl1)
compiled2 == re_compile(pattern2)
template2 == ExpandTemplate(repl2)

\* re.sub(pattern1, repl1, text) and re.sub(pattern2, repl2, text), once the
\* pattern has compiled
Rule1(text) == sub(compiled1, template1, text)
Rule2(text) == sub(compiled2, template2, text)

-----------------------------------------------------------------------------
(* The text layer of open(): utf-8 and newline translation. *)

EAcute == "U+00E9"

\* utf-8 decoding fails on a lead byte with no continuation byte and on a
\* continuation byte with no lead byte.
InvalidBytes(bytes) ==
    { i \in 1..Len(bytes) :
        \/ bytes[i] = "xC3" /\ ~(i < Len(bytes) /\ bytes[i + 1] = "xA9")
        \/ bytes[i] = "xA9" /\ ~(i > 1 /\ bytes[i - 1] = "xC3") }

Decodable(bytes) == InvalidBytes(bytes) = {}

Decode(bytes) ==
    Concat([i \in 1..Len(bytes) |->
              IF bytes[i] = "xC3" THEN << EAcute >>
              ELSE IF bytes[i] = "xA9" THEN << >>
              ELSE << bytes[i] >>])

Encode(text) ==
    Concat([i \in 1..Len(text) |->
              IF text[i] = EAcute THEN << "xC3", "xA9" >> ELSE << text[i] >>])

\* Reading with newline='': the line endings are left as they are.
KeepNewlines(text) == text

\* Reading with newline=None: "\r\n" and a lone "\r" become "\n".
UniversalNewlines(text) ==
    Concat([i \in 1..Len(text) |->
              IF text[i] = "\r" THEN << "\n" >>
              ELSE IF text[i] = "\n" /\ i > 1 /\ text[i - 1] = "\r" THEN << >>
              ELSE << text[i] >>])

\* Writing with newline=nl: every "\n" is written as nl ('\n' and '' leave
\* the text as it is).
TranslateOut(text, nl) ==
    IF nl = << >> \/ nl = << "\n" >> THEN text
    ELSE Concat([i \in 1..Len(text) |-> IF text[i] = "\n" THEN nl ELSE << text[i] >>])

\* f.read() of lines 9-10
ReadText(bytes) == UniversalNewlines(Decode(bytes))

\* the bytes f.write(content) of lines 31-32 puts in the file
WriteBytes(text) == Encode(TranslateOut(text, newlineArg))

-----------------------------------------------------------------------------
(* The documents the script is run on. *)

\* The two guards of supabasePipeline.ts the script is written to rewrite.
GuardLine1 ==
    << "i", "f", " ", "(", "!", "t", "h", "i", "s", ".", "i", "s", "I", "n", "i", "t", "i",
       "a", "l", "i", "z", "e", "d", " ", "|", "|", " ", "!", "t", "h", "i", "s", ".", "s",
       "u", "p", "a", "b", "a", "s", "e", "U", "r", "l", " ", "|", "|", " ", "!", "t", "h",
       "i", "s", ".", "s", "u", "p", "a", "b", "a", "s", "e", "A", "n", "o", "n", "K", "e",
       "y", ")" >>

GuardLine2 ==
    << "i", "f", " ", "(", "!", "t", "h", "i", "s", ".", "s", "u", "p", "a", "b", "a", "s",
       "e", "U", "r", "l", ")", " ", "t", "h", "r", "o", "w", " ", "n", "e", "w", " ", "E",
       "r", "r", "o", "r", "(", "'", "S", "u", "p", "a", "b", "a", "s", "e", " ", "U", "R",
       "L", " ", "n", "o", "t", " ", "s", "e", "t", "'", ")", ";" >>

\* The two guards, the second one also cut in two after its condition, the
\* two line ending characters and the character U+00E9.
Fragments ==
    { GuardLine1, GuardLine2,
      SubSeq(GuardLine2, 1, 22), SubSeq(GuardLine2, 23, Len(GuardLine2)),
      << "\r" >>, << "\n" >>, << "xC3", "xA9" >> }

Documents == { Concat(fs) : fs \in UNION { [1..n -> Fragments] : n \in 0..MaxFrags } }

Min(a, b) == IF a < b THEN a ELSE b

-----------------------------------------------------------------------------
(* The script. *)

Init ==
    /\ exists \in BOOLEAN
    /\ disk \in (IF exists THEN Documents ELSE { << >> })
    /\ pc = "read"
    /\ content = << >>
    /\ stdout = << >>
    /\ err = NoError
    /\ before = [exists |-> exists, disk |-> disk]
    /\ readText = << >>
    /\ sub1Out = << >>
    /\ log = << >>
    /\ prevDone = FALSE

Raise(e) ==
    /\ pc' = "failed"
    /\ err' = e

\* lines 9-10: with open(path, 'r', encoding='utf-8') as f: content = f.read()
ReadFile ==
    /\ pc = "read"
    /\ exists
    /\ Decodable(disk)
    /\ content' = ReadText(disk)
    /\ readText' = content'
    /\ log' = Append(log, "read")
    /\ pc' = "sub1"
    /\ UNCHANGED << exists, disk, stdout, err, before, sub1Out, prevDone >>

\* line 9 raises: the path names no file
ReadMissing ==
    /\ pc = "read"
    /\ ~exists
    /\ Raise("FileNotFoundError")
    /\ UNCHANGED << exists, disk, content, stdout, before, readText, sub1Out, log, prevDone >>

\* line 9 raises: the file may not be read
ReadDenied ==
    /\ pc = "read"
    /\ exists
    /\ Raise("PermissionError")
    /\ UNCHANGED << exists, disk, content, stdout, before, readText, sub1Out, log, prevDone >>

\* line 10 raises: the bytes are not utf-8
ReadUndecodable ==
    /\ pc = "read"
    /\ exists
    /\ ~Decodable(disk)
    /\ Raise("UnicodeDecodeError")
    /\ UNCHANGED << exists, disk, content, stdout, before, readText, sub1Out, log, prevDone >>

\* lines 13-17: re.sub compiles its pattern (re.error if it is malformed),
\* then substitutes
Sub1 ==
    /\ pc = "sub1"
    /\ IF compiled1.ok
       THEN /\ content' = Rule1(content)
            /\ sub1Out' = content'
            /\ log' = log \o << "compile1", "sub1" >>
            /\ pc' = "sub2"
            /\ err' = err
       ELSE /\ Raise("re.error")
            /\ UNCHANGED << content, sub1Out, log >>
    /\ UNCHANGED << exists, disk, stdout, before, readText, prevDone >>

\* The second re.sub handed the text that was read instead of content.
Sub2OnOriginal ==
    /\ pc = "sub2"
    /\ content' = Rule2(readText)
    /\ log' = log \o << "compile2", "sub2" >>
    /\ pc' = "open"
    /\ UNCHANGED << exists, disk, stdout, err, before, readText, sub1Out, prevDone >>

\* lines 20-24
Sub2 ==
    /\ pc = "sub2"
    /\ IF compiled2.ok
       THEN /\ content' = Rule2(content)
            /\ log' = log \o << "compile2", "sub2" >>
            /\ pc' = "open"
            /\ err' = err
       ELSE /\ Raise("re.error")
            /\ UNCHANGED << content, log >>
    /\ UNCHANGED << exists, disk, stdout, before, readText, sub1Out, prevDone >>

\* line 31: open(path, 'w', ...) creates the file or truncates it
OpenWrite ==
    /\ pc = "open"
    /\ exists' = TRUE
    /\ disk' = << >>
    /\ log' = Append(log, "open")
    /\ pc' = "write"
    /\ UNCHANGED << content, stdout, err, before, readText, sub1Out, prevDone >>

\* line 31 raises: the file may not be written
OpenDenied ==
    /\ pc = "open"
    /\ Raise("PermissionError")
    /\ UNCHANGED << exists, disk, content, stdout, before, readText, sub1Out, log, prevDone >>

\* line 32 and the end of the with block: the text is written and the file closed
WriteFile ==
    /\ pc = "write"
    /\ disk' = WriteBytes(content)
    /\ log' = Append(log, "write")
    /\ pc' = "print"
    /\ UNCHANGED << exists, content, stdout, err, before, readText, sub1Out, prevDone >>

\* line 32 raises (the device is full, an I/O error): some of the bytes are written
WriteFail ==
    /\ pc = "write"
    /\ WriteBytes(content) # << >>
    /\ \E k \in 0..Min(MaxPartial, Len(WriteBytes(content)) - 1) :
           disk' = SubSeq(WriteBytes(content), 1, k)
    /\ Raise("OSError")
    /\ UNCHANGED << exists, content, stdout, before, readText, sub1Out, log, prevDone >>

\* line 34
PrintDone ==
    /\ pc = "print"
    /\ stdout' = Append(stdout, confirmation)
    /\ log' = Append(log, "print")
    /\ pc' = "done"
    /\ UNCHANGED << exists, disk, content, err, before, readText, sub1Out, prevDone >>

\* The confirmation reaches stdout before the error is raised.
PrintFailEmits ==
    /\ pc = "print"
    /\ stdout' = Append(stdout, confirmation)
    /\ Raise("UnicodeEncodeError")
    /\ UNCHANGED << exists, disk, content, before, readText, sub1Out, log, prevDone >>

\* line 34 raises: stdout's encoding has no U+2705
PrintFail ==
    /\ pc = "print"
    /\ Raise("UnicodeEncodeError")
    /\ UNCHANGED << exists, disk, content, stdout, before, readText, sub1Out, log, prevDone >>

\* The script is run again on the file the last run left.
Rerun ==
    /\ pc \in { "done", "failed" }
    /\ prevDone' = IF \E i \in 1..Len(log) : log[i] = "write" THEN TRUE
                   ELSE IF exists = before.exists /\ disk = before.disk THEN prevDone
                   ELSE FALSE
    /\ pc' = "read"
    /\ content' = << >>
    /\ stdout' = << >>
    /\ err' = NoError
    /\ before' = [exists |-> exists, disk |-> disk]
    /\ readText' = << >>
    /\ sub1Out' = << >>
    /\ log' = << >>
    /\ UNCHANGED << exists, disk >>

Next ==
    \/ ReadFile
    \/ ReadMissing
    \/ ReadDenied
    \/ ReadUndecodable
    \/ Sub1
    \/ Sub2
    \/ OpenWrite
    \/ OpenDenied
    \/ WriteFile
    \/ WriteFail
    \/ PrintDone
    \/ PrintFail
    \/ Rerun

Spec == Init /\ [][Next]_vars

-----------------------------------------------------------------------------
(* What the properties below are stated in. *)

\* The run has completed this step.
Has(step) == \E i \in 1..Len(log) : log[i] = step

\* The steps of a run that no error ends.
Lifecycle == << "read", "compile1", "sub1", "compile2", "sub2", "open", "write", "print" >>

IsPrefix(a, b) == Len(a) <= Len(b) /\ SubSeq(b, 1, Len(a)) = a

\* The positions of text where the text lit stands.
Found(lit, text) ==
    { i \in 1..(Len(text) - Len(lit) + 1) : \A k \in 1..Len(lit) : text[i + k - 1] = lit[k] }

\* The number of lines of a text: one more than its line feeds.
NumLines(text) == 1 + Cardinality({ i \in 1..Len(text) : text[i] = "\n" })

\* The target file is as it was when the run started.
FileUnchanged == exists = before.exists /\ disk = before.disk

\* The guard the first rule is to leave behind.
ShortGuard ==
    << "i", "f", " ", "(", "!", "t", "h", "i", "s", ".", "i", "s", "I", "n", "i", "t", "i",
       "a", "l", "i", "z", "e", "d", ")" >>

\* out is text with every occurrence of lit replaced by new and everything
\* else kept, character by character (the occurrences of lit do not overlap).
ReplacedVerbatim(text, out, lit, new) ==
    LET occ == Found(lit, text)
        d == Len(new) - Len(lit)
        Earlier(i) == Cardinality({ s \in occ : s < i })
        Covered(i) == \E s \in occ : s <= i /\ i < s + Len(lit)
    IN  /\ Len(out) = Len(text) + d * Cardinality(occ)
        /\ \A s \in occ :
              SubSeq(out, s + d * Earlier(s), s + d * Earlier(s) + Len(new) - 1) = new
        /\ \A i \in 1..Len(text) : ~Covered(i) => out[i + d * Earlier(i)] = text[i]

\* File bytes with every CR LF and every lone CR turned into LF.
NormalizeEOL(bytes) ==
    Concat([i \in 1..Len(bytes) |->
              IF bytes[i] = "\r" THEN << "\n" >>
              ELSE IF bytes[i] = "\n" /\ i > 1 /\ bytes[i - 1] = "\r" THEN << >>
              ELSE << bytes[i] >>])

\* Each pattern is an escaped literal and spells the guard it is written for.
MatchersAreTheGuards ==
    /\ IsEscapedLiteral(pattern1) /\ compiled1.lit = GuardLine1
    /\ IsEscapedLiteral(pattern2) /\ compiled2.lit = GuardLine2

NoRuleMatched == Found(GuardLine1, readText) = {} /\ Found(GuardLine2, sub1Out) = {}

-----------------------------------------------------------------------------
\* C1: on every fatal error of a run (the target file missing or unreadable, a
\* matcher failing to compile, a failure while opening or writing the output)
\* the target file is as it was before the run.
C1_FileUnchangedOnFatalError ==
    pc = "failed" /\ err \in { "FileNotFoundError", "PermissionError", "UnicodeDecodeError",
                               "re.error", "OSError" }
        => FileUnchanged

\* C2: the rules are applied in declaration order, each to the output of the
\* one before: rule 1 turns the long guard into the short one, rule 2 acts on
\* rule 1's output, the text written is rule2(rule1(T)) of the text T read, and
\* nothing but (a part of) that text is ever put in the file.
C2_RulesInOrder ==
    /\ MatchersAreTheGuards
    /\ Has("sub1") => sub1Out = Rule1(readText)
    /\ Has("sub1") /\ readText = GuardLine1 => sub1Out = ShortGuard
    /\ Has("sub2") => content = Rule2(sub1Out)
    /\ Has("write") => disk = WriteBytes(Rule2(Rule1(readText)))
    /\ ~FileUnchanged => Has("sub2") /\ IsPrefix(disk, WriteBytes(content))

\* C2's case: a run on a document that holds both guards has finished.
C2_BothRulesMatched ==
    /\ pc = "done"
    /\ Found(GuardLine1, readText) # {}
    /\ Found(GuardLine2, readText) # {}

\* (pc = "open" is the state the second re.sub leaves; content is its result
\* and sub1Out its input.)
\* C3 as claimed: rule 2 puts a block of exactly three lines in the place of
\* every occurrence of the one-line guard, so each occurrence adds two lines.
C3_BlockOfThreeLines ==
    pc = "open" =>
        NumLines(content) = NumLines(sub1Out) + 2 * Cardinality(Found(GuardLine2, sub1Out))

\* C3 as amended: rule 2 puts a block of exactly four lines (a comment line,
\* two const declarations and the guard on the local value) in the place of
\* every occurrence of the one-line guard, and keeps all other text verbatim.
C3_BlockOfFourLines ==
    pc = "open" =>
        /\ NumLines(content) = NumLines(sub1Out) + 3 * Cardinality(Found(GuardLine2, sub1Out))
        /\ ReplacedVerbatim(sub1Out, content, GuardLine2, template2)
        /\ \A s \in Found(template2, content) :
              LET block == SubSeq(content, s, s + Len(template2) - 1)
              IN  /\ NumLines(block) = 4
                  /\ Found(<< "/", "/" >>, block) = { 1 }
                  /\ Cardinality(Found(<< "c", "o", "n", "s", "t", " " >>, block)) = 2
                  /\ Cardinality(Found(<< "i", "f", " ", "(", "!", "s", "u", "p", "a", "b", "a",
                                           "s", "e", "U", "r", "l", ")" >>, block)) = 1

\* C3's case: rule 2 has replaced an occurrence that had text before and after it.
C3_ReplacedInContext ==
    /\ pc = "open"
    /\ \E s \in Found(GuardLine2, sub1Out) : s > 1 /\ s + Len(GuardLine2) <= Len(sub1Out)

\* C4: a rule whose matcher does not occur in its input returns the input
\* unchanged and raises nothing; when neither rule matches, the text handed to
\* the write step is the text that was read.
C4_NoMatchNoChange ==
    /\ pc = "sub2" /\ Found(GuardLine1, readText) = {} => content = readText
    /\ pc = "open" /\ Found(GuardLine2, sub1Out) = {} => content = sub1Out
    /\ pc = "write" /\ NoRuleMatched => content = readText
    /\ pc = "failed" /\ Has("read") => Has("sub2")

\* C4's case: a text with half a guard in it, and so no match, is about to be written.
C4_UnmatchedTextWritten ==
    /\ pc = "write"
    /\ NoRuleMatched
    /\ Found(SubSeq(GuardLine2, 1, 22), readText) # {}

\* C5: each rule replaces every occurrence of its matcher, not only the
\* first: none that was in its input is left in its output, and it puts in as
\* many replacements as it found matches.
C5_AllOccurrencesReplaced ==
    /\ pc = "sub2" =>
          /\ Found(GuardLine1, sub1Out) = {}
          /\ Cardinality(Found(template1, sub1Out)) =
                Cardinality(Found(template1, readText)) + Cardinality(Found(GuardLine1, readText))
          /\ Len(sub1Out) = Len(readText)
                - Cardinality(Found(GuardLine1, readText)) * (Len(GuardLine1) - Len(template1))
    /\ pc = "open" =>
          /\ Found(GuardLine2, content) = {}
          /\ Cardinality(Found(template2, content)) =
                Cardinality(Found(template2, sub1Out)) + Cardinality(Found(GuardLine2, sub1Out))
          /\ Len(content) = Len(sub1Out)
                + Cardinality(Found(GuardLine2, sub1Out)) * (Len(template2) - Len(GuardLine2))

\* C5's case: rule 1 has matched and rule 2 has replaced two occurrences.
C5_ReplacedTwice ==
    /\ pc = "open"
    /\ Found(GuardLine1, readText) # {}
    /\ Cardinality(Found(GuardLine2, sub1Out)) = 2

\* C6 as claimed: a malformed matcher is found when the rules are built, before
\* any text is processed: by the time a rule has been applied, the matcher of
\* every rule has been compiled.
C6_CompiledBeforeAnyText ==
    Has("sub1") => Has("compile1") /\ Has("compile2")

\* C6 as amended: both matchers are well formed, so no run ends in a pattern
\* error; each matcher is compiled by the re.sub call that applies it, rule 2's
\* only after rule 1 has been applied to the text in memory, and both before
\* the file is opened for writing.
C6_CompiledAtUse ==
    /\ compiled1.ok /\ compiled2.ok
    /\ err # "re.error"
    /\ Has("sub1") => Has("compile1")
    /\ Has("sub2") => Has("compile2")
    /\ Has("compile2") => Has("sub1")
    /\ Has("open") => Has("compile1") /\ Has("compile2")
    /\ pc \in { "sub1", "sub2" } => FileUnchanged

\* C6's case: rule 1 has rewritten the text and rule 2's matcher is not yet compiled.
C6_Rule1AppliedFirst ==
    /\ pc = "sub2"
    /\ sub1Out # readText
    /\ ~Has("compile2")

\* C7: once the write has completed, reading the file again as the read step
\* does gives exactly the text handed to the write step, and the file holds LF
\* line endings only.
C7_RoundTrip ==
    Has("write") =>
        /\ Decodable(disk)
        /\ ReadText(disk) = content
        /\ Found(<< "\r" >>, disk) = {}
        /\ Cardinality(Found(<< "\n" >>, disk)) = Cardinality(Found(<< "\n" >>, content))

\* C7's case: a file with a CR line ending and a two-byte character has been rewritten.
C7_RewrittenWithLF ==
    /\ pc = "done"
    /\ Found(<< "\r" >>, before.disk) # {}
    /\ Found(<< "\n" >>, content) # {}
    /\ Found(<< EAcute >>, content) # {}

\* C8: a run reads once, then applies the rules, then writes once, then prints;
\* the confirmation is printed only after the write has completed, exactly once
\* by a run that no error ends, whatever the rules matched, and never by a run
\* that raised.
C8_Lifecycle ==
    /\ IsPrefix(log, Lifecycle)
    /\ pc = "done" <=> Has("print")
    /\ pc = "done" => log = Lifecycle /\ stdout = << confirmation >> /\ err = NoError
    /\ pc # "done" => stdout = << >>
    /\ pc = "failed" <=> err # NoError
    /\ pc \notin { "done", "failed" } => Len(log) < Len(Lifecycle) /\ err = NoError

\* C8's case: a run in which no rule matched has printed the confirmation.
C8_DoneWithoutMatch ==
    /\ pc = "done"
    /\ NoRuleMatched
    /\ readText # << >>

\* C9: the two rules change nothing in an already transformed text: neither
\* guard is left in it, and a second run of the script on its own output leaves
\* the file as it is.
C9_Idempotent ==
    /\ pc = "open" =>
          /\ Rule2(Rule1(content)) = content
          /\ Found(GuardLine1, content) = {}
          /\ Found(GuardLine2, content) = {}
    /\ prevDone /\ pc = "open" => content = readText
    /\ prevDone /\ pc = "done" => FileUnchanged

\* C9's case: a second run has finished on a file in which the first run had
\* put both replacements.
C9_SecondRunDone ==
    /\ prevDone
    /\ pc = "done"
    /\ Found(ShortGuard, content) # {}
    /\ Found(template2, content) # {}

\* C10 as claimed: a run that ends well and in which no rule matched leaves
\* the bytes of the file identical to what they were before the run.
C10_FileIdentical ==
    pc = "done" /\ NoRuleMatched => disk = before.disk

\* C10 as amended: a run that ends well and in which no rule matched leaves
\* the file as it was but for its line endings, every CR LF and lone CR having
\* become LF; a file with no CR in it is left identical.
C10_FileNormalized ==
    pc = "done" /\ NoRuleMatched =>
        /\ disk = NormalizeEOL(before.disk)
        /\ Found(<< "\r" >>, before.disk) = {} => disk = before.disk

\* C10's case: a file with a CR LF in it and no guard has been rewritten.
C10_CRLFRewritten ==
    /\ pc = "done"
    /\ NoRuleMatched
    /\ Found(<< "\r", "\n" >>, before.disk) # {}
    /\ disk # before.disk

====
